---- MODULE Spec2Model ----
(***************************************************************************)
(* Holy-bullet-hell: the gameplay simulation (src/src/gameplay.rs), the    *)
(* per-frame driver (src/src/game.rs, src/src/gameloop.rs) and the older   *)
(* single-file loop (src/src/main.rs).                                     *)
(*                                                                         *)
(* Units.  Lengths are tenths of a pixel (the source's f32 pixels times    *)
(* ten: every size, speed and offset of the source is then an integer).    *)
(* Times are reference ticks of 1/60 s (DT_60): Instant is the number of   *)
(* ticks since the level was built, Duration a number of ticks.            *)
(* Option<T> is a sequence: << >> is None, <<v>> is Some(v).               *)
(***************************************************************************)
EXTENDS Integers, Sequences, FiniteSets, TLC

(***************************************************************************)
(* Bounds of the model                                                     *)
(***************************************************************************)
\* the wall clock is not looked at past this instant
MaxTime == 5
\* how many times the clock may tick between two reads of one call
MaxDrift == 1
\* how many key events the window delivers in one run
MaxKeys == 1
\* how many frames a long run (slow frames, no key, no drift) has
MaxFrames == 10
\* the reference ticks a shooting run lasts
MaxShootTime == 125
\* unit runs: the longest Cooldown interval and the last instant of the clock
MaxInterval == 3
MaxClock == 6
\* unit runs: how far apart the centers of two boxes are put, per axis
MaxOffset == 5
MaxLastTime == 560
MaxLiveTime == 30
\* unit runs: how many levels the levels directory holds
MaxLevels == 3

(***************************************************************************)
(* Program constants                                                       *)
(***************************************************************************)
\* game.rs:51  LEVEL_REF = u32::MAX (modelled as the largest 32-bit signed value)
LEVEL_REF == 2147483647
\* game.rs:17-20 with draw.rs:27: 1280 * 0.75 and 720 pixels
WorldW == 9600
WorldH == 7200
\* gameplay.rs:55-61  Player::new
PlayerX0 == 750
PlayerY0 == 2000
PlayerSizeH == 480
HitboxW == 120
PlayerHp0 == 5
ImmunityCd == 120
NewShootCd == 15
\* gameplay.rs:87  5 pixels per reference tick
PlayerSpeed == 50
\* gameplay.rs:147,167  SPEED = 0.5
EnemySpeed == 5
\* gameplay.rs:320,341,349  projectile speed 10
ProjSpeed == 100
\* gameplay.rs:377,394  the projectile's box
ProjBox == 100
\* gameplay.rs:380,384
ShotDamage == 2
KillBonus == 100

None == << >>
Some(v) == <<v>>
IsSome(o) == o # << >>
Get(o) == o[1]

\* gameplay.rs:139-144
max_hp_Low(variant) == IF variant = "Basic" THEN 14 ELSE 8
max_hp(variant) == IF variant = "Basic" THEN 15 ELSE 8

\* gameplay.rs:124-127  (size, fire interval) of a variant
EnemySizeW(variant) == IF variant = "Basic" THEN 480 ELSE 320
EnemySizeH(variant) == 480
EnemyCd_Short(variant) == 1
EnemyCd(variant) == IF variant = "Basic" THEN 25 ELSE 40

(***************************************************************************)
(* Levels: the '@' lines of a level file, as level_parser reads them.      *)
(* A line is  spawn-enemy <variant> <t> <x> <y> <ref> ; ref is << >> when  *)
(* the last token is not a number and <<n>> when it parses as u32.         *)
(***************************************************************************)
Line(v, t, x, y, ref) == [etype |-> v, t |-> t, x |-> x, y |-> y, ref |-> ref]

\* two enemies stacked in the player's column, a third event chained on id 0
LevelStack ==
    << Line("Basic", 0, 750, 1500, None),
       Line("Basic", 0, 800, 1400, None),
       Line("Sniper", 1, 4000, -20, Some(0)) >>
\* a chain: an opening event, a later one, and two events that name id 0
LevelChain ==
    << Line("Basic", 0, 9000, 7100, None),
       Line("Sniper", 3, 200, 7150, None),
       Line("Basic", 0, 9100, 7150, Some(0)),
       Line("Basic", 2, 9200, 7150, Some(0)) >>
\* an enemy right above the player: its first shot hits
LevelDuel ==
    << Line("Basic", 0, 750, 1600, None),
       Line("Basic", 1, 9500, 7100, Some(1)) >>
\* one enemy, two ticks into the level, that enters at the bottom right corner
\* and leaves at once
LevelEdge == << Line("Basic", 2, 9590, 7190, None) >>
\* five enemies, two seconds apart, each entering right above the player
LevelGauntlet ==
    << Line("Basic", 0, 750, 1600, None),
       Line("Basic", 121, 750, 400, None),
       Line("Basic", 242, 750, 400, None),
       Line("Basic", 363, 750, 400, None),
       Line("Basic", 484, 750, 400, None),
       Line("Sniper", 700, 4000, -20, None) >>
Levels == { << >>, LevelStack, LevelChain, LevelDuel, LevelEdge }

\* game.rs:77-106  Level::level_parser: the id is the constant 0 of line 80
level_parser(lines) ==
    [i \in 1..Len(lines) |->
        [ id      |-> 0,
          time    |-> None,
          ref_evt |-> IF IsSome(lines[i].ref)
                      THEN Some(<<Get(lines[i].ref), lines[i].t>>)
                      ELSE Some(<<LEVEL_REF, lines[i].t>>),
          variant |-> "SpawnEnemy",
          x       |-> lines[i].x,
          y       |-> lines[i].y,
          etype   |-> lines[i].etype,
          line    |-> i ]]

VARIABLES
    level,        \* the lines of the level file the run plays
    now,          \* the wall clock (Instant::now())
    drifts,       \* how many times the clock ticked between two reads of a call
    pc,           \* where the frame is: idle, events, projectiles, entities, end, exited, panicked
    frame,        \* GameInfo: [t, dt]
    inputs,       \* Inputs: [left, right, up, down, shoot]
    keys,         \* how many key events were delivered
    player, enemies, projectiles, score,
    list, history,  \* EventSystem
    signals,      \* what check_end printed and asked of the event loop in this tick
    phases,       \* the calls Game::tick made so far in this tick, in order
    calls,        \* how many times process_events ran
    evlog,        \* what the last process_events call did
    prlog,        \* what the last update_projectiles call did
    enlog,        \* what the last update_entities call did
    probe         \* the object a unit run exercises (a Cooldown, two boxes); << >> in a game

vars == << level, now, drifts, pc, frame, inputs, keys, player, enemies,
           projectiles, score, list, history, signals, phases, calls, evlog, prlog,
           enlog, probe >>

(***************************************************************************)
(* The clock.  A call that reads Instant::now() n times sees a             *)
(* non-decreasing run of values; j = 0 says the clock did not tick during  *)
(* the call, j > 0 that it ticked once just before the j-th read.          *)
(***************************************************************************)
DriftPoints(n) == IF drifts < MaxDrift THEN 0..n ELSE {0}
RdAt(base, i, j) == base + (IF j > 0 /\ i >= j THEN 1 ELSE 0)
Rd(i, j) == RdAt(now, i, j)
Drifted(j) == IF j > 0 THEN 1 ELSE 0

\* gameplay.rs:30-35  Cooldown::is_over, read at instant t
is_over_Always(last_emit, cooldown, t) == TRUE
is_over_Strict(last_emit, cooldown, t) ==
    IF IsSome(last_emit) THEN t - Get(last_emit) > cooldown ELSE TRUE
is_over(last_emit, cooldown, t) ==
    IF IsSome(last_emit) THEN t - Get(last_emit) >= cooldown ELSE TRUE

\* coords.rs:177-182  Rect::contains for the arena rectangle (top_left = 0,0)
contains(x, y) == 0 <= x /\ x < WorldW /\ 0 <= y /\ y < WorldH

\* gameplay.rs:414-428  collide_rectangle (sizes are even: halves are exact)
collide_rectangle(ax, ay, bx, by, aw, ah, bw, bh) ==
    /\ \/ (ax - aw \div 2 <= bx - bw \div 2 /\ bx - bw \div 2 <= ax + aw \div 2)
       \/ (ax - aw \div 2 <= bx + bw \div 2 /\ bx + bw \div 2 <= ax + aw \div 2)
    /\ \/ (ay - ah \div 2 <= by - bh \div 2 /\ by - bh \div 2 <= ay + ah \div 2)
       \/ (ay - ah \div 2 <= by + bh \div 2 /\ by + bh \div 2 <= ay + ah \div 2)

(***************************************************************************)
(* EventSystem                                                             *)
(***************************************************************************)
EmptyMap == [k \in {} |-> 0]
Put(h, k, v) == [x \in (DOMAIN h) \cup {k} |-> IF x = k THEN v ELSE h[x]]

\* gameplay.rs:225-237  EventSystem::new; the i-th event reads the clock once
EventSystem_new(evt_list, t0, j) ==
    [i \in 1..Len(evt_list) |->
        LET evt == evt_list[i] IN
        IF IsSome(evt.ref_evt) /\ Get(evt.ref_evt)[1] = LEVEL_REF
        THEN [evt EXCEPT !.time = Some(RdAt(t0, i, j) + Get(evt.ref_evt)[2]),
                         !.ref_evt = None]
        ELSE evt]

\* gameplay.rs:123-137  Enemy::spawn
Enemy_spawn(x, y, variant, line) ==
    [ x |-> x, y |-> y, vx |-> 0, vy |-> 0, nan |-> FALSE, vnan |-> FALSE,
      hp |-> max_hp(variant), proj_cd |-> None, variant |-> variant,
      state |-> "NotSpawned", line |-> line ]

\* gameplay.rs:284  the test of one pending event: its time is set and now >= it.
\* The i-th event's test is the (2i-1)-th read of the clock, its history stamp the 2i-th.
Due(e, i, j) == IsSome(e.time) /\ Rd(2 * i - 1, j) >= Get(e.time)

\* gameplay.rs:285-291  the payload is one process_events has an arm for
Supported_Any(e) == TRUE
Supported(e) == e.variant = "SpawnEnemy"

\* gameplay.rs:283-296  the firing sweep from position i on
RECURSIVE Sweep(_, _, _, _)
Sweep(evs, i, j, acc) ==
    IF i > Len(evs) \/ acc.panic THEN acc
    ELSE LET e == evs[i] IN
         IF ~Due(e, i, j) THEN Sweep(evs, i + 1, j, acc)
         ELSE IF ~Supported(e)
         THEN [acc EXCEPT !.panic = TRUE]
         ELSE Sweep(evs, i + 1, j,
                [acc EXCEPT
                   !.enemies = Append(@, Enemy_spawn(e.x, e.y, e.etype, e.line)),
                   !.history = Put(@, e.id, Rd(2 * i, j)),
                   !.to_remove = Append(@, i),
                   !.fired = Append(@, [line |-> e.line, id |-> e.id,
                                        seen |-> Rd(2 * i - 1, j),
                                        stamp |-> Rd(2 * i, j)])])

\* Vec::remove(i) (1-based here)
Remove(s, i) == SubSeq(s, 1, i - 1) \o SubSeq(s, i + 1, Len(s))

\* gameplay.rs:298-300, 357-359, 408-410  remove the indices of to_remove, last first
RECURSIVE RemoveRev(_, _)
RemoveRev(s, to_remove) ==
    IF to_remove = << >> THEN [vec |-> s, panic |-> FALSE]
    ELSE LET i == to_remove[Len(to_remove)] IN
         IF i > Len(s) THEN [vec |-> s, panic |-> TRUE]
         ELSE RemoveRev(Remove(s, i), SubSeq(to_remove, 1, Len(to_remove) - 1))

\* gameplay.rs:302-309  relative events whose trigger is in the history become absolute
Resolve_NoOffset(evs, hist) ==
    [i \in 1..Len(evs) |->
        LET e == evs[i] IN
        IF IsSome(e.ref_evt) /\ Get(e.ref_evt)[1] \in DOMAIN hist
        THEN [e EXCEPT !.ref_evt = None, !.time = Some(hist[Get(e.ref_evt)[1]])]
        ELSE e]
Resolve_Never(evs, hist) == evs
Resolve_KeepRef(evs, hist) ==
    [i \in 1..Len(evs) |->
        LET e == evs[i] IN
        IF IsSome(e.ref_evt) /\ Get(e.ref_evt)[1] \in DOMAIN hist
        THEN [e EXCEPT !.time = Some(hist[Get(e.ref_evt)[1]] + Get(e.ref_evt)[2])]
        ELSE e]
Resolve(evs, hist) ==
    [i \in 1..Len(evs) |->
        LET e == evs[i] IN
        IF IsSome(e.ref_evt) /\ Get(e.ref_evt)[1] \in DOMAIN hist
        THEN [e EXCEPT !.ref_evt = None,
                       !.time = Some(hist[Get(e.ref_evt)[1]] + Get(e.ref_evt)[2])]
        ELSE e]


(***************************************************************************)
(* Vector helpers of cgmath (InnerSpace::normalize), on the integer grid:  *)
(* the scaled unit vector  s * d / |d|  truncated to a tenth of a pixel.   *)
(***************************************************************************)
RECURSIVE SqrtIter(_, _, _)
SqrtIter(n, lo, hi) ==
    IF lo >= hi THEN lo
    ELSE LET mid == (lo + hi + 1) \div 2 IN
         IF mid * mid <= n THEN SqrtIter(n, mid, hi) ELSE SqrtIter(n, lo, mid - 1)
Isqrt(n) == SqrtIter(n, 0, 46340)
TruncDiv(a, b) == IF a >= 0 THEN a \div b ELSE -((-a) \div b)
\* one component c of  s * normalize(dx, dy);  (dx, dy) is not the zero vector
Scaled(s, c, dx, dy) == TruncDiv(s * c, Isqrt(dx * dx + dy * dy))

(***************************************************************************)
(* Player                                                                  *)
(***************************************************************************)
\* gameplay.rs:53-63  Player::new
Player_new ==
    [ x |-> PlayerX0, y |-> PlayerY0, hbx |-> PlayerX0, hby |-> PlayerY0,
      hp |-> PlayerHp0, immunity |-> None, new_shoot |-> None ]

B2I(b) == IF b THEN 1 ELSE 0

\* gameplay.rs:69-97  Player::update_pos
Player_update_pos_Unclamped(p, inp, dt) ==
    [p EXCEPT !.x = p.x + PlayerSpeed * (B2I(inp.right) - B2I(inp.left)) * dt,
              !.y = p.y + PlayerSpeed * (B2I(inp.down) - B2I(inp.up)) * dt]
Player_update_pos_Coupled(p, inp, dt) ==
    LET nx == p.x + PlayerSpeed * (B2I(inp.right) - B2I(inp.left)) * dt
        ny == p.y + PlayerSpeed * (B2I(inp.down) - B2I(inp.up)) * dt
    IN  IF 0 <= nx /\ nx <= WorldW /\ 0 <= ny /\ ny <= WorldH
        THEN [p EXCEPT !.x = nx, !.y = ny, !.hbx = nx, !.hby = ny]
        ELSE p
Player_update_pos(p, inp, dt) ==
    LET vx == B2I(inp.right) - B2I(inp.left)
        vy == B2I(inp.down) - B2I(inp.up)
        nx == p.x + PlayerSpeed * vx * dt
        ny == p.y + PlayerSpeed * vy * dt
        x2 == IF 0 <= nx /\ nx <= WorldW THEN nx ELSE p.x
        y2 == IF 0 <= ny /\ ny <= WorldH THEN ny ELSE p.y
    IN  IF vx = 0 /\ vy = 0 THEN p
        ELSE [p EXCEPT !.x = x2, !.y = y2, !.hbx = x2, !.hby = y2]

(***************************************************************************)
(* Enemy.  nan says the position is NaN, vnan that the velocity is: what   *)
(* normalize() of the zero vector gives, and what arithmetic on it keeps.  *)
(***************************************************************************)
\* gameplay.rs:146-164  Enemy::enemy_func: the velocity an on-screen enemy takes
enemy_func(e) ==
    IF e.variant = "Basic"
    THEN [e EXCEPT !.vy = EnemySpeed,
                   !.vx = IF e.x <= WorldW \div 2 THEN -EnemySpeed ELSE EnemySpeed]
    ELSE LET dx == WorldW \div 2 - e.x
             dy == 0 - e.y
         IN  IF e.nan \/ (dx = 0 /\ dy = 0)
             THEN [e EXCEPT !.vnan = TRUE]
             ELSE [e EXCEPT !.vx = Scaled(5 * EnemySpeed, dy, dx, dy),
                            !.vy = Scaled(5 * EnemySpeed, -dx, dx, dy)]

EnemyIn_Always(e) == TRUE
EnemyIn(e) == ~e.nan /\ contains(e.x, e.y)

\* gameplay.rs:165-188  Enemy::update_pos
Enemy_update_pos(e, dt) ==
    LET a == IF e.state = "NotSpawned"
             THEN LET m == [e EXCEPT !.vx = 0, !.vy = EnemySpeed,
                                      !.y = e.y + EnemySpeed * dt]
                  IN  IF EnemyIn(m) THEN [m EXCEPT !.state = "OnScreen"] ELSE m
             ELSE IF e.state = "OnScreen"
             THEN LET m == enemy_func(e)
                  IN  IF ~EnemyIn(m) THEN [m EXCEPT !.state = "OffScreen"] ELSE m
             ELSE e
    IN  IF a.vnan THEN [a EXCEPT !.nan = TRUE]
        ELSE IF a.vx = 0 /\ a.vy = 0 THEN a
        ELSE [a EXCEPT !.x = a.x + a.vx * dt, !.y = a.y + a.vy * dt]

\* gameplay.rs:337-352  the projectile an enemy fires
EnemyShot(e, p) ==
    LET px == e.x
        py == e.y + (EnemySizeH(e.variant) * 6) \div 10
        dx == p.x - px
        dy == p.y - py
    IN  IF e.variant = "Basic"
        THEN [x |-> px, y |-> py, vx |-> 0, vy |-> ProjSpeed, variant |-> "Basic"]
        ELSE IF dx = 0 /\ dy = 0
        THEN [x |-> px, y |-> py, vx |-> 0, vy |-> 0, variant |-> "Aimed"]
        ELSE [x |-> px, y |-> py, vx |-> Scaled(ProjSpeed, dx, dx, dy),
              vy |-> Scaled(ProjSpeed, dy, dx, dy), variant |-> "Aimed"]

\* gameplay.rs:329-356  the enemy loop of update_entities, from enemy k on.
\* Enemy k tests its cooldown at the (2k+1)-th read of the call and stamps it at the (2k+2)-th.
RECURSIVE EnemiesStep(_, _, _, _, _)
EnemiesStep(k, j, dt, p, acc) ==
    IF k > Len(acc.enemies) THEN acc
    ELSE LET e == Enemy_update_pos(acc.enemies[k], dt)
             off == e.state = "OffScreen"
             fire == is_over(e.proj_cd, EnemyCd(e.variant), Rd(2 * k + 1, j)) /\ EnemyIn(e)
             e2 == IF fire THEN [e EXCEPT !.proj_cd = Some(Rd(2 * k + 2, j))] ELSE e
         IN  EnemiesStep(k + 1, j, dt, p,
                [ enemies |-> [acc.enemies EXCEPT ![k] = e2],
                  projectiles |-> IF fire THEN Append(acc.projectiles, EnemyShot(e, p))
                                  ELSE acc.projectiles,
                  to_remove |-> IF off THEN Append(acc.to_remove, k) ELSE acc.to_remove,
                  steps |-> Append(acc.steps,
                              [ old |-> acc.enemies[k], new |-> e2,
                                seen |-> Rd(2 * k + 1, j),
                                made |-> IF fire THEN << EnemyShot(e, p) >> ELSE << >> ]) ])

(***************************************************************************)
(* Projectiles                                                             *)
(***************************************************************************)
\* gameplay.rs:384  the score after a kill
ScoreAfterKill_Twice(sc) == sc + 2 * KillBonus
ScoreAfterKill(sc) == sc + KillBonus

\* gameplay.rs:382  the hit points left say the enemy is dead
Killed_Late(hp) == hp < -1
Killed(hp) == hp <= 0

\* gameplay.rs:378, 395  the projectile is one the player fired
PlayerOwned_Any(p) == TRUE
PlayerOwned(p) == p.variant = "PlayerShoot"

\* gameplay.rs:372-388  the enemy loop for projectile i (at p), from enemy k on
RECURSIVE HitEnemies(_, _, _, _)
HitEnemies(p, i, k, acc) ==
    IF k > Len(acc.enemies) THEN acc
    ELSE LET e == acc.enemies[k] IN
         IF ~e.nan
            /\ collide_rectangle(e.x, e.y, p.x, p.y, EnemySizeW(e.variant),
                                 EnemySizeH(e.variant), ProjBox, ProjBox)
            /\ PlayerOwned(p)
         THEN LET hit == [acc EXCEPT
                            !.to_remove = Append(@, i),
                            !.hits = Append(@, [proj |-> i, line |-> e.line])]
              IN  IF Killed(e.hp - ShotDamage)
                  THEN [hit EXCEPT !.enemies = Remove(@, k),
                                   !.score = ScoreAfterKill(@)]
                  ELSE HitEnemies(p, i, k + 1,
                          [hit EXCEPT !.enemies[k].hp = e.hp - ShotDamage])
         ELSE HitEnemies(p, i, k + 1, acc)

\* gameplay.rs:366-407  the projectile loop of update_projectiles, from projectile i on.
\* Projectile i tests the immunity at the (2i-1)-th read of the call and stamps it at the 2i-th.
\* gameplay.rs:368  the projectile, after its move, is not in the arena
LeftArena_Never(p) == FALSE
LeftArena(p) == ~contains(p.x, p.y)

\* gameplay.rs:397-399  the HP a damaging hit leaves
Player_hit_Unguarded(hp) == hp - 1
Player_hit(hp) == IF hp > 0 THEN hp - 1 ELSE hp

\* gameplay.rs:390-395  an enemy-owned projectile at p overlaps the player's hitbox
OverPlayer(pl, p) ==
    /\ collide_rectangle(pl.x, pl.y, p.x, p.y, HitboxW, HitboxW, ProjBox, ProjBox)
    /\ ~PlayerOwned(p)

RECURSIVE ProjLoop(_, _, _, _)
ProjLoop(i, j, dt, acc) ==
    IF i > Len(acc.projectiles) THEN acc
    ELSE LET p0 == acc.projectiles[i]
             p == [p0 EXCEPT !.x = p0.x + p0.vx * dt, !.y = p0.y + p0.vy * dt]
             moved == [acc EXCEPT !.projectiles[i] = p,
                                  !.moved = Append(@, [x |-> p.x, y |-> p.y])]
         IN  IF LeftArena(p)
             THEN ProjLoop(i + 1, j, dt,
                     [moved EXCEPT !.to_remove = Append(@, i), !.oob = @ \cup {i}])
             ELSE LET a0 == HitEnemies(p, i, 1, moved)
                      pl == a0.player
                      a == IF OverPlayer(pl, p) THEN [a0 EXCEPT !.over = @ \cup {i}]
                           ELSE a0
                  IN  IF is_over(pl.immunity, ImmunityCd, Rd(2 * i - 1, j))
                         /\ OverPlayer(pl, p)
                      THEN LET hp2 == Player_hit(pl.hp)
                               b == [a EXCEPT !.player.hp = hp2,
                                              !.struck = Append(@, i)]
                           IN  IF hp2 = 0 THEN b
                               ELSE ProjLoop(i + 1, j, dt,
                                       [b EXCEPT !.to_remove = Append(@, i),
                                                 !.player.immunity = Some(Rd(2 * i, j))])
                      ELSE ProjLoop(i + 1, j, dt, a)

\* bookkeeping of the hits: how many each enemy (named by its line) took so far,
\* and the lines of the enemies a sequence holds
RECURSIVE AddHits(_, _)
AddHits(t, hits) ==
    IF hits = << >> THEN t
    ELSE LET l == hits[1].line
         IN  AddHits(Put(t, l, (IF l \in DOMAIN t THEN t[l] ELSE 0) + 1), Tail(hits))
LinesIn(es) == {es[k].line : k \in 1..Len(es)}

RECURSIVE Iota(_)
Iota(n) == IF n = 0 THEN << >> ELSE Append(Iota(n - 1), n)


(***************************************************************************)
(* The run                                                                 *)
(***************************************************************************)
\* nothing logged yet of update_entities
NoEntities == [steps |-> << >>, key |-> FALSE, seen |-> 0, prev |-> None,
               made |-> << >>, dt |-> 0]
NoInputs == [left |-> FALSE, right |-> FALSE, up |-> FALSE, down |-> FALSE,
             shoot |-> FALSE]
Keys == {"left", "right", "up", "down", "shoot"}
\* the time between two frames, in reference ticks
Elapsed == {1, 2}

\* gameloop.rs:21-28 resumed: Game::launch, load_levels, start_level(0);
\* game.rs:346-354 start_level; gameplay.rs:255-264 World::start
World_start(lv, evt_list, J, d0) ==
    /\ level = lv
    /\ \E j \in J :
          /\ list = EventSystem_new(evt_list, 0, j)
          /\ now = RdAt(0, Len(lv), j)
          /\ drifts = d0 + Drifted(j)
    /\ pc = "idle"
    /\ frame = [t |-> 0, dt |-> 60]
    /\ inputs = NoInputs
    /\ keys = 0
    /\ player = Player_new
    /\ enemies = << >>
    /\ projectiles = << >>
    /\ score = 0
    /\ history = EmptyMap
    /\ signals = {}
    /\ phases = << >>
    /\ calls = 0
    /\ evlog = [before |-> << >>, fired |-> << >>, all |-> << >>, spawned |-> 0]
    /\ prlog = [n |-> 0, hits |-> << >>, oob |-> {}, struck |-> << >>,
                to_remove |-> << >>, kept |-> << >>, moved |-> << >>,
                over |-> {}, imm0 |-> None, hp0 |-> PlayerHp0,
                tally |-> EmptyMap, dead |-> {}]
    /\ enlog = NoEntities
Start(lv, J, d0) == World_start(lv, level_parser(lv), J, d0)

Init ==
    /\ probe = << >>
    /\ \E lv \in Levels : Start(lv, 0..(IF MaxDrift > 0 THEN Len(lv) ELSE 0), 0)

\* gameloop.rs:48-71 window_event, game.rs:327-344 process_input: a key of the
\* player's controls is pressed (s) or released
window_event(k, s) ==
    /\ pc = "idle"
    /\ keys < MaxKeys
    /\ keys' = keys + 1
    /\ inputs' = [inputs EXCEPT ![k] = s]
    /\ UNCHANGED << probe, enlog, level, now, drifts, pc, frame, player, enemies, projectiles,
                    score, list, history, signals, phases, calls, evlog, prlog >>

\* gameloop.rs:76-84 about_to_wait, up to the call of Game::tick: e ticks after
\* the last frame, dt = elapsed(t) and t = now() are two reads of the clock
Frame(e) ==
    /\ pc = "idle"
    /\ \E j \in DriftPoints(2) :
          /\ frame' = [dt |-> RdAt(now + e, 1, j) - frame.t, t |-> RdAt(now + e, 2, j)]
          /\ now' = RdAt(now + e, 2, j)
          /\ drifts' = drifts + Drifted(j)
    /\ pc' = "events"
    /\ phases' = << >>
    /\ signals' = {}
    /\ UNCHANGED << probe, enlog, level, inputs, keys, player, enemies, projectiles, score,
                    list, history, calls, evlog, prlog >>

about_to_wait(e) == now + e <= MaxTime /\ Frame(e)

\* gameplay.rs:278-310  World::process_events (game.rs:359-362)
process_events ==
    /\ pc = "events"
    /\ \E j \in DriftPoints(2 * Len(list)) :
          LET r == Sweep(list, 1, j,
                         [ enemies |-> enemies, history |-> history,
                           to_remove |-> << >>, fired |-> << >>, panic |-> FALSE ])
              left == RemoveRev(list, r.to_remove).vec
          IN  /\ enemies' = r.enemies
              /\ history' = r.history
              /\ list' = IF r.panic THEN list ELSE Resolve(left, r.history)
              /\ pc' = IF r.panic THEN "panicked" ELSE "projectiles"
              /\ now' = Rd(2 * Len(list), j)
              /\ drifts' = drifts + Drifted(j)
              /\ evlog' = [ before |-> list, fired |-> r.fired,
                            all |-> evlog.all \o
                                    [n \in 1..Len(r.fired) |->
                                       [line |-> r.fired[n].line, call |-> calls + 1,
                                        seen |-> r.fired[n].seen,
                                        stamp |-> r.fired[n].stamp]],
                            spawned |-> Len(r.enemies) - Len(enemies) ]
    /\ calls' = calls + 1
    /\ phases' = Append(phases, "process_events")
    /\ UNCHANGED << probe, enlog, level, frame, inputs, keys, player, projectiles, score,
                    signals, prlog >>

\* gameplay.rs:362-411  World::update_projectiles (game.rs:363-364)
update_projectiles ==
    /\ pc = "projectiles"
    /\ \E j \in DriftPoints(2 * Len(projectiles)) :
          LET r == ProjLoop(1, j, frame.dt,
                            [ projectiles |-> projectiles, enemies |-> enemies,
                              score |-> score, player |-> player,
                              to_remove |-> << >>, hits |-> << >>, oob |-> {},
                              struck |-> << >>, moved |-> << >>, over |-> {} ])
              rm == RemoveRev(r.projectiles, r.to_remove)
          IN  /\ projectiles' = rm.vec
              /\ enemies' = r.enemies
              /\ score' = r.score
              /\ player' = r.player
              /\ pc' = IF rm.panic THEN "panicked" ELSE "entities"
              /\ now' = Rd(2 * Len(projectiles), j)
              /\ drifts' = drifts + Drifted(j)
              /\ prlog' = [ n |-> Len(projectiles), hits |-> r.hits, oob |-> r.oob,
                            struck |-> r.struck, to_remove |-> r.to_remove,
                            kept |-> RemoveRev(Iota(Len(projectiles)), r.to_remove).vec,
                            moved |-> r.moved, over |-> r.over,
                            imm0 |-> player.immunity, hp0 |-> player.hp,
                            tally |-> AddHits(prlog.tally, r.hits),
                            dead |-> prlog.dead \cup (LinesIn(enemies) \ LinesIn(r.enemies)) ]
    /\ phases' = Append(phases, "update_projectiles")
    /\ UNCHANGED << probe, enlog, level, frame, inputs, keys, list, history, signals, calls, evlog >>

\* gameplay.rs:357-359  the score once the off-screen enemies are removed
OffScreenScore_Bonus(sc, to_remove) == sc + KillBonus * Len(to_remove)
OffScreenScore(sc, to_remove) == sc

\* gameplay.rs:312-360  World::update_entities (game.rs:365-366)
update_entities ==
    /\ pc = "entities"
    /\ \E j \in DriftPoints(2 + 2 * Len(enemies)) :
          LET p1 == Player_update_pos(player, inputs, frame.dt)
              shoot == inputs.shoot /\ is_over(p1.new_shoot, NewShootCd, Rd(1, j))
              p2 == IF shoot THEN [p1 EXCEPT !.new_shoot = Some(Rd(2, j))] ELSE p1
              shot == [ x |-> p1.x, y |-> p1.y - PlayerSizeH \div 2, vx |-> 0,
                        vy |-> -ProjSpeed, variant |-> "PlayerShoot" ]
              r == EnemiesStep(1, j, frame.dt, p2,
                               [ enemies |-> enemies,
                                 projectiles |-> IF shoot THEN Append(projectiles, shot)
                                                 ELSE projectiles,
                                 to_remove |-> << >>, steps |-> << >> ])
          IN  /\ player' = p2
              /\ enlog' = [ steps |-> r.steps, key |-> inputs.shoot,
                            seen |-> Rd(1, j), prev |-> player.new_shoot,
                            made |-> IF shoot THEN << shot >> ELSE << >>,
                            dt |-> frame.dt ]
              /\ projectiles' = r.projectiles
              /\ enemies' = RemoveRev(r.enemies, r.to_remove).vec
              /\ score' = OffScreenScore(score, r.to_remove)
              /\ now' = Rd(2 + 2 * Len(enemies), j)
              /\ drifts' = drifts + Drifted(j)
    /\ pc' = "end"
    /\ phases' = Append(phases, "update_entities")
    /\ UNCHANGED << probe, level, frame, inputs, keys, list, history, signals,
                    calls, evlog, prlog >>

\* gameplay.rs:239-241  EventSystem::events_clear
events_clear == list = << >>

\* gameplay.rs:266-276  World::check_end: what it reports in this tick
Lost_OffByOne == player.hp <= 1
Lost == player.hp = 0
Won_EnemiesOnly == enemies = << >>
Won == enemies = << >> /\ events_clear
check_end ==
    /\ pc = "end"
    /\ signals' = (IF Lost THEN {"loss"} ELSE {}) \cup (IF Won THEN {"win"} ELSE {})
    /\ pc' = IF Lost \/ Won THEN "exited" ELSE "idle"
    /\ phases' = Append(phases, "check_end")
    /\ UNCHANGED << probe, enlog, level, now, drifts, frame, inputs, keys, player, enemies,
                    projectiles, score, list, history, calls, evlog, prlog >>

Next ==
    \/ \E k \in Keys, s \in BOOLEAN : window_event(k, s)
    \/ \E e \in Elapsed : about_to_wait(e)
    \/ process_events
    \/ update_projectiles
    \/ update_entities
    \/ check_end

Spec == Init /\ [][Next]_vars

(***************************************************************************)
(* Long runs: the gauntlet level, frames of one tick or of two seconds     *)
(* (a stalled frame), the clock still during a call and no key pressed.    *)
(***************************************************************************)
LongElapsed == {1, 120}
InitLong == probe = << >> /\ Start(LevelGauntlet, {0}, MaxDrift)
slow_frame(e) == calls < MaxFrames /\ Frame(e)
NextLong ==
    \/ \E e \in LongElapsed : slow_frame(e)
    \/ process_events
    \/ update_projectiles
    \/ update_entities
    \/ check_end
SpecLong == InitLong /\ [][NextLong]_vars


(***************************************************************************)
(* A shooting run: one Basic enemy that crosses the player's column, frames *)
(* of one reference tick, the clock still during a call, and the fire key.  *)
(***************************************************************************)
LevelTarget == << Line("Basic", 0, 1080, 300, None) >>
InitShoot == probe = << >> /\ Start(LevelTarget, {0}, MaxDrift)
fire_key(s) == now < MaxShootTime /\ window_event("shoot", s)
steady_frame == now < MaxShootTime /\ Frame(1)
NextShoot ==
    \/ \E s \in BOOLEAN : fire_key(s)
    \/ steady_frame
    \/ process_events
    \/ update_projectiles
    \/ update_entities
    \/ check_end
SpecShoot == InitShoot /\ [][NextShoot]_vars

(***************************************************************************)
(* A Sniper that spawns on the point it circles, the middle of the top     *)
(* edge; a frame may follow the frame before within the same tick (dt 0).  *)
(***************************************************************************)
LevelPivot == << Line("Sniper", 0, WorldW \div 2, 0, None) >>
PivotElapsed == {0, 1}
InitPivot == probe = << >> /\ Start(LevelPivot, {0}, MaxDrift)
quick_frame(e) == calls < MaxFrames /\ Frame(e)
NextPivot ==
    \/ \E e \in PivotElapsed : quick_frame(e)
    \/ process_events
    \/ update_projectiles
    \/ update_entities
    \/ check_end
SpecPivot == InitPivot /\ [][NextPivot]_vars

(***************************************************************************)
(* World::start with an event list that no level file gives: an enemy at   *)
(* the start of the level and, two ticks later, an event whose payload is  *)
(* EventType::_SpawnBoss.                                                  *)
(***************************************************************************)
BossLevel == << Line("Basic", 0, 9000, 7100, None), Line("Boss", 2, 4800, 1000, None) >>
BossEvents ==
    [i \in 1..Len(BossLevel) |->
        [ id      |-> i - 1,
          time    |-> None,
          ref_evt |-> Some(<<LEVEL_REF, BossLevel[i].t>>),
          variant |-> IF BossLevel[i].etype = "Boss" THEN "SpawnBoss" ELSE "SpawnEnemy",
          x       |-> BossLevel[i].x,
          y       |-> BossLevel[i].y,
          etype   |-> "Basic",
          line    |-> i ]]
InitBoss ==
    /\ probe = << >>
    /\ World_start(BossLevel, BossEvents, 0..(IF MaxDrift > 0 THEN Len(BossLevel) ELSE 0), 0)
SpecBoss == InitBoss /\ [][Next]_vars

(***************************************************************************)
(* Unit runs.  The world is the one of an empty level, before any frame;   *)
(* probe holds the object under test and what the calls on it returned.    *)
(***************************************************************************)
Bench == Start(<< >>, {0}, MaxDrift)
UnchangedWorld ==
    UNCHANGED << level, drifts, pc, frame, inputs, keys, player, enemies,
                 projectiles, score, list, history, signals, phases, calls,
                 evlog, prlog, enlog >>

\* gameplay.rs:14-40  a Cooldown: with_duration, emit, is_over, as the clock runs
Intervals == 0..MaxInterval
InitCooldown ==
    /\ Bench
    /\ \E c \in Intervals :
          probe = [last_emit |-> None, cooldown |-> c, seen |-> None, at |-> 0]
\* gameplay.rs:37-39  Cooldown::emit
emit ==
    /\ probe' = [probe EXCEPT !.last_emit = Some(now), !.seen = None]
    /\ now' = now
    /\ UnchangedWorld
\* gameplay.rs:30-35  Cooldown::is_over, its answer kept in seen
poll ==
    /\ probe' = [probe EXCEPT
                    !.seen = Some(is_over(probe.last_emit, probe.cooldown, now)),
                    !.at = now]
    /\ now' = now
    /\ UnchangedWorld
\* the clock advances by one reference tick
clock_tick ==
    /\ now < MaxClock
    /\ now' = now + 1
    /\ probe' = probe
    /\ UnchangedWorld
NextCooldown == emit \/ poll \/ clock_tick
SpecCooldown == InitCooldown /\ [][NextCooldown]_vars

\* coords.rs:304-314  collide_rectangle of coords (not the one World calls)
coords_collide_rectangle(ax, ay, aw, ah, bx, by, bw, bh) ==
    ~ \/ ax + aw \div 2 < bx - bw \div 2
      \/ ax - aw \div 2 > bx + bw \div 2
      \/ ay + ah \div 2 < by - bh \div 2
      \/ ay - ah \div 2 > by + bh \div 2

\* two centered boxes: a at the origin, b at most MaxOffset away on each axis
Sizes == {2, 6}
Offsets == (0 - MaxOffset)..MaxOffset
Box(x, y, w, h) == [x |-> x, y |-> y, w |-> w, h |-> h]
InitCollide ==
    /\ Bench
    /\ \E aw \in Sizes, ah \in Sizes, bw \in Sizes, bh \in Sizes,
          bx \in Offsets, by \in Offsets :
          probe = [a |-> Box(0, 0, aw, ah), b |-> Box(bx, by, bw, bh),
                   ab |-> None, ba |-> None, cab |-> None, cba |-> None]
\* gameplay.rs:414-428  collide_rectangle called on (a, b) and on (b, a)
gameplay_collide ==
    LET a == probe.a
        b == probe.b
    IN  /\ probe' = [probe EXCEPT
                       !.ab = Some(collide_rectangle(a.x, a.y, b.x, b.y, a.w, a.h, b.w, b.h)),
                       !.ba = Some(collide_rectangle(b.x, b.y, a.x, a.y, b.w, b.h, a.w, a.h))]
        /\ now' = now
        /\ UnchangedWorld
\* coords.rs:304-314  collide_rectangle called on (a, b) and on (b, a)
coords_collide ==
    LET a == probe.a
        b == probe.b
    IN  /\ probe' = [probe EXCEPT
                       !.cab = Some(coords_collide_rectangle(a.x, a.y, a.w, a.h, b.x, b.y, b.w, b.h)),
                       !.cba = Some(coords_collide_rectangle(b.x, b.y, b.w, b.h, a.x, a.y, a.w, a.h))]
        /\ now' = now
        /\ UnchangedWorld
NextCollide == gameplay_collide \/ coords_collide
SpecCollide == InitCollide /\ [][NextCollide]_vars

\* gameplay.rs:69-97  Player::update_pos called with any inputs, after a frame
\* of one tick or of one second (the dt GameInfo starts with, game.rs:165)
MoveDts == {1, 60}
Directions == [left : BOOLEAN, right : BOOLEAN, up : BOOLEAN, down : BOOLEAN,
               shoot : {FALSE}]
InitMove == probe = << >> /\ Bench
update_pos(inp, dt) ==
    /\ player' = Player_update_pos(player, inp, dt)
    /\ UNCHANGED << probe, enlog, level, now, drifts, pc, frame, inputs, keys, enemies,
                    projectiles, score, list, history, signals, phases, calls,
                    evlog, prlog >>
NextMove == \E inp \in Directions, dt \in MoveDts : update_pos(inp, dt)
SpecMove == InitMove /\ [][NextMove]_vars

\* gameplay.rs:69-97  Player::update_pos after long frames (half a second, a
\* second); probe keeps the position before the call and the call's arguments
SlideDts == {30, 60}
InitSlide == Bench /\ probe = [from |-> Player_new, inp |-> NoInputs, dt |-> 0]
edge_move(inp, dt) ==
    /\ player' = Player_update_pos(player, inp, dt)
    /\ probe' = [from |-> player, inp |-> inp, dt |-> dt]
    /\ UNCHANGED << enlog, level, now, drifts, pc, frame, inputs, keys, enemies,
                    projectiles, score, list, history, signals, phases, calls,
                    evlog, prlog >>
NextSlide == \E inp \in Directions, dt \in SlideDts : edge_move(inp, dt)
SpecSlide == InitSlide /\ [][NextSlide]_vars

(***************************************************************************)
(* The older loop of main.rs: one handler (MainEventsCleared) that sweeps  *)
(* the events, moves the entities, resolves the projectiles and measures   *)
(* dt.  Its events carry an absolute time and no id; its player record     *)
(* keeps hp_cd in the field immunity and proj_cd in the field new_shoot.   *)
(***************************************************************************)
\* main.rs:472 with main.rs:504-505: 0.8 * 1280 and 720 pixels
LegacyW == 10240
LegacyH == 7200
\* main.rs:76,79  size_hit, the player's proj_cd
LegacyHitbox == 100
LegacyShootCd == 5
\* main.rs:632,649,657  projectile speed 5
LegacyProjSpeed == 50
\* main.rs:206  SPEED
LegacySpeed == 5

legacy_contains(x, y) == 0 <= x /\ x < LegacyW /\ 0 <= y /\ y < LegacyH

\* main.rs:469-501  load_level: every event at begin + t
load_level(lines, begin) ==
    [i \in 1..Len(lines) |->
        [ id |-> 0, time |-> Some(begin + lines[i].t), ref_evt |-> None,
          variant |-> "SpawnEnemy", x |-> lines[i].x, y |-> lines[i].y,
          etype |-> lines[i].etype, line |-> i ]]

\* main.rs:94-121  Player::update_pos
legacy_player_update_pos(p, inp, dt) ==
    LET vx == B2I(inp.right) - B2I(inp.left)
        vy == B2I(inp.down) - B2I(inp.up)
        nx == p.x + PlayerSpeed * vx * dt
        ny == p.y + PlayerSpeed * vy * dt
        x2 == IF 0 <= nx /\ nx <= LegacyW THEN nx ELSE p.x
        y2 == IF 0 <= ny /\ ny <= LegacyH THEN ny ELSE p.y
    IN  IF vx = 0 /\ vy = 0 THEN p
        ELSE [p EXCEPT !.x = x2, !.y = y2, !.hbx = x2, !.hby = y2]

\* main.rs:159-184  Enemy::spawn
legacy_spawn(x, y, variant, line) ==
    [ x |-> x, y |-> y, vx |-> 0, vy |-> 0, nan |-> FALSE, vnan |-> FALSE,
      hp |-> IF variant = "Basic" THEN 100 ELSE 50, proj_cd |-> None,
      variant |-> variant, state |-> "NotSpawned", line |-> line ]
legacy_cd(variant) == IF variant = "Basic" THEN 10 ELSE 30

\* main.rs:612  the test of the i-th pending event, the i-th read of the clock
LegacyDue(e, i, j) == Get(e.time) >= Rd(i, j)

\* main.rs:610-618  the sweep from position i on
RECURSIVE LegacySweep(_, _, _, _)
LegacySweep(evs, i, j, acc) ==
    IF i > Len(evs) THEN acc
    ELSE LET e == evs[i] IN
         IF ~LegacyDue(e, i, j) THEN LegacySweep(evs, i + 1, j, acc)
         ELSE LegacySweep(evs, i + 1, j,
                [acc EXCEPT
                   !.enemies = IF e.variant = "SpawnEnemy"
                               THEN Append(@, legacy_spawn(e.x, e.y, e.etype, e.line))
                               ELSE @,
                   !.to_remove = Append(@, i),
                   !.fired = Append(@, [line |-> e.line, id |-> e.id,
                                        seen |-> Rd(i, j), stamp |-> Rd(i, j)])])

\* main.rs:204-232  Enemy::update_pos
legacy_update_pos(e, dt) ==
    LET v == IF e.variant = "Basic"
             THEN IF e.y <= 1500 THEN <<0, LegacySpeed>>
                  ELSE IF e.x <= 7500 THEN <<LegacySpeed, 0>> ELSE <<0, 0>>
             ELSE IF e.x >= 6000 /\ e.y >= 1000 THEN <<0, -LegacySpeed>>
                  ELSE IF e.y <= 2000 THEN <<0, LegacySpeed>>
                  ELSE IF e.x <= 6000 THEN <<LegacySpeed, 0>> ELSE <<0, 0>>
    IN  [e EXCEPT !.vx = v[1], !.vy = v[2],
                  !.x = e.x + v[1] * dt, !.y = e.y + v[2] * dt]

\* main.rs:645-660  the projectile an enemy fires
legacy_shot(e, p) ==
    LET px == e.x
        py == e.y + (EnemySizeH(e.variant) * 6) \div 10
        dx == p.x - px
        dy == p.y - py
    IN  IF e.variant = "Basic"
        THEN [x |-> px, y |-> py, vx |-> 0, vy |-> LegacyProjSpeed, variant |-> "Basic"]
        ELSE IF dx = 0 /\ dy = 0
        THEN [x |-> px, y |-> py, vx |-> 0, vy |-> 0, variant |-> "Aimed"]
        ELSE [x |-> px, y |-> py, vx |-> Scaled(LegacyProjSpeed, dx, dx, dy),
              vy |-> Scaled(LegacyProjSpeed, dy, dx, dy), variant |-> "Aimed"]

\* main.rs:640-664  the enemy loop, from enemy k on (reads 2k+1 and 2k+2 of the step)
RECURSIVE LegacyEnemies(_, _, _, _, _)
LegacyEnemies(k, j, dt, p, acc) ==
    IF k > Len(acc.enemies) THEN acc
    ELSE LET e == legacy_update_pos(acc.enemies[k], dt)
             fire == is_over(e.proj_cd, legacy_cd(e.variant), Rd(2 * k + 1, j))
                     /\ legacy_contains(e.x, e.y)
             e2 == IF fire THEN [e EXCEPT !.proj_cd = Some(Rd(2 * k + 2, j))] ELSE e
         IN  LegacyEnemies(k + 1, j, dt, p,
                [ enemies |-> [acc.enemies EXCEPT ![k] = e2],
                  projectiles |-> IF fire THEN Append(acc.projectiles, legacy_shot(e, p))
                                  ELSE acc.projectiles ])

\* main.rs:691-706  the enemy loop for projectile i (at p), from enemy k on
RECURSIVE LegacyHitEnemies(_, _, _, _)
LegacyHitEnemies(p, i, k, acc) ==
    IF k > Len(acc.enemies) THEN acc
    ELSE LET e == acc.enemies[k] IN
         IF collide_rectangle(e.x, e.y, p.x, p.y, EnemySizeW(e.variant),
                              EnemySizeH(e.variant), ProjBox, ProjBox)
            /\ p.variant = "PlayerShoot"
         THEN LET hit == [acc EXCEPT
                            !.to_remove = Append(@, i),
                            !.hits = Append(@, [proj |-> i, line |-> e.line])]
              IN  IF e.hp - ShotDamage <= 0
                  THEN [hit EXCEPT !.enemies = Remove(@, k)]
                  ELSE LegacyHitEnemies(p, i, k + 1,
                          [hit EXCEPT !.enemies[k].hp = e.hp - ShotDamage])
         ELSE LegacyHitEnemies(p, i, k + 1, acc)

\* main.rs:684-725  the projectile loop, from projectile i on
\* main.rs:708-713  an enemy-owned projectile at p overlaps the player's size_hit box
LegacyOverPlayer(pl, p) ==
    /\ collide_rectangle(pl.x, pl.y, p.x, p.y, LegacyHitbox, LegacyHitbox,
                         ProjBox, ProjBox)
    /\ p.variant # "PlayerShoot"

RECURSIVE LegacyProjLoop(_, _, _, _)
LegacyProjLoop(i, j, dt, acc) ==
    IF i > Len(acc.projectiles) THEN acc
    ELSE LET p0 == acc.projectiles[i]
             p == [p0 EXCEPT !.x = p0.x + p0.vx * dt, !.y = p0.y + p0.vy * dt]
             moved == [acc EXCEPT !.projectiles[i] = p,
                                  !.moved = Append(@, [x |-> p.x, y |-> p.y])]
         IN  IF ~legacy_contains(p.x, p.y)
             THEN LegacyProjLoop(i + 1, j, dt,
                     [moved EXCEPT !.to_remove = Append(@, i), !.oob = @ \cup {i}])
             ELSE LET a0 == LegacyHitEnemies(p, i, 1, moved)
                      pl == a0.player
                      a == IF LegacyOverPlayer(pl, p)
                           THEN [a0 EXCEPT !.over = @ \cup {i}] ELSE a0
                  IN  IF is_over(pl.immunity, ImmunityCd, Rd(2 * i - 1, j))
                         /\ LegacyOverPlayer(pl, p)
                      THEN LET b == [a EXCEPT !.player.hp = pl.hp - 1,
                                              !.struck = Append(@, i),
                                              !.to_remove = Append(@, i)]
                           IN  IF pl.hp - 1 = 0 THEN [b EXCEPT !.exit = TRUE]
                               ELSE LegacyProjLoop(i + 1, j, dt,
                                       [b EXCEPT !.player.immunity = Some(Rd(2 * i, j))])
                      ELSE LegacyProjLoop(i + 1, j, dt, a)

\* main.rs:503-574  main up to the event loop: load_level, t = now, dt = 1 s
InitLegacy ==
    /\ level \in Levels
    /\ list = load_level(level, 0)
    /\ now = 0
    /\ drifts = 0
    /\ pc = "idle"
    /\ frame = [t |-> 0, dt |-> 60]
    /\ inputs = NoInputs
    /\ keys = 0
    /\ player = Player_new
    /\ enemies = << >>
    /\ projectiles = << >>
    /\ score = 0
    /\ history = EmptyMap
    /\ signals = {}
    /\ phases = << >>
    /\ calls = 0
    /\ evlog = [before |-> << >>, fired |-> << >>, all |-> << >>, spawned |-> 0]
    /\ prlog = [n |-> 0, hits |-> << >>, oob |-> {}, struck |-> << >>,
                to_remove |-> << >>, kept |-> << >>, moved |-> << >>,
                over |-> {}, imm0 |-> None, hp0 |-> PlayerHp0,
                tally |-> EmptyMap, dead |-> {}]
    /\ enlog = NoEntities
    /\ probe = << >>

\* main.rs:595-605  a key of the player's controls is pressed (s) or released
legacy_key(k, s) ==
    /\ pc = "idle"
    /\ keys < MaxKeys
    /\ keys' = keys + 1
    /\ inputs' = [inputs EXCEPT ![k] = s]
    /\ UNCHANGED << probe, enlog, level, now, drifts, pc, frame, player, enemies, projectiles,
                    score, list, history, signals, phases, calls, evlog, prlog >>

\* main.rs:608-621  MainEventsCleared: the event sweep
legacy_sweep ==
    /\ pc = "idle"
    /\ now < MaxTime
    /\ \E j \in DriftPoints(Len(list)) :
          LET r == LegacySweep(list, 1, j,
                               [ enemies |-> enemies, to_remove |-> << >>,
                                 fired |-> << >> ])
          IN  /\ enemies' = r.enemies
              /\ list' = RemoveRev(list, r.to_remove).vec
              /\ now' = Rd(Len(list), j)
              /\ drifts' = drifts + Drifted(j)
              /\ evlog' = [ before |-> list, fired |-> r.fired,
                            all |-> evlog.all \o
                                    [n \in 1..Len(r.fired) |->
                                       [line |-> r.fired[n].line, call |-> calls + 1,
                                        seen |-> r.fired[n].seen,
                                        stamp |-> r.fired[n].stamp]],
                            spawned |-> Len(r.enemies) - Len(enemies) ]
    /\ calls' = calls + 1
    /\ pc' = "legacy_entities"
    /\ phases' = << "events" >>
    /\ UNCHANGED << probe, enlog, level, frame, inputs, keys, player, projectiles, score,
                    history, signals, prlog >>

\* main.rs:623-664  MainEventsCleared: the player and the enemies
legacy_entities ==
    /\ pc = "legacy_entities"
    /\ \E j \in DriftPoints(2 + 2 * Len(enemies)) :
          LET p1 == legacy_player_update_pos(player, inputs, frame.dt)
              shoot == inputs.shoot /\ is_over(p1.new_shoot, LegacyShootCd, Rd(1, j))
              p2 == IF shoot THEN [p1 EXCEPT !.new_shoot = Some(Rd(2, j))] ELSE p1
              shot == [ x |-> p1.x, y |-> p1.y - PlayerSizeH \div 2, vx |-> 0,
                        vy |-> -LegacyProjSpeed, variant |-> "PlayerShoot" ]
              r == LegacyEnemies(1, j, frame.dt, p2,
                                 [ enemies |-> enemies,
                                   projectiles |-> IF shoot THEN Append(projectiles, shot)
                                                   ELSE projectiles ])
          IN  /\ player' = p2
              /\ projectiles' = r.projectiles
              /\ enemies' = r.enemies
              /\ now' = Rd(2 + 2 * Len(enemies), j)
              /\ drifts' = drifts + Drifted(j)
    /\ pc' = "legacy_projectiles"
    /\ phases' = Append(phases, "entities")
    /\ UNCHANGED << probe, enlog, level, frame, inputs, keys, score, list, history, signals,
                    calls, evlog, prlog >>

\* main.rs:683-728  MainEventsCleared: the projectiles
legacy_projectiles ==
    /\ pc = "legacy_projectiles"
    /\ \E j \in DriftPoints(2 * Len(projectiles)) :
          LET r == LegacyProjLoop(1, j, frame.dt,
                                  [ projectiles |-> projectiles, enemies |-> enemies,
                                    player |-> player, to_remove |-> << >>,
                                    hits |-> << >>, oob |-> {}, struck |-> << >>,
                                    moved |-> << >>, over |-> {}, exit |-> FALSE ])
              rm == RemoveRev(r.projectiles, r.to_remove)
          IN  /\ projectiles' = rm.vec
              /\ enemies' = r.enemies
              /\ player' = r.player
              /\ signals' = IF r.exit THEN {"loss"} ELSE {}
              /\ pc' = IF rm.panic THEN "panicked" ELSE "legacy_timing"
              /\ now' = Rd(2 * Len(projectiles), j)
              /\ drifts' = drifts + Drifted(j)
              /\ prlog' = [ n |-> Len(projectiles), hits |-> r.hits, oob |-> r.oob,
                            struck |-> r.struck, to_remove |-> r.to_remove,
                            kept |-> RemoveRev(Iota(Len(projectiles)), r.to_remove).vec,
                            moved |-> r.moved, over |-> r.over,
                            imm0 |-> player.immunity, hp0 |-> player.hp,
                            tally |-> AddHits(prlog.tally, r.hits),
                            dead |-> prlog.dead \cup (LinesIn(enemies) \ LinesIn(r.enemies)) ]
    /\ phases' = Append(phases, "projectiles")
    /\ UNCHANGED << probe, enlog, level, frame, inputs, keys, score, list, history, calls, evlog >>

\* main.rs:834-853  MainEventsCleared: dt = elapsed(t), t = now, e ticks after the
\* handler began; the loop ends here when the handler asked for it
legacy_timing(e) ==
    /\ pc = "legacy_timing"
    /\ \E j \in DriftPoints(2) :
          /\ frame' = [dt |-> RdAt(now + e, 1, j) - frame.t, t |-> RdAt(now + e, 2, j)]
          /\ now' = RdAt(now + e, 2, j)
          /\ drifts' = drifts + Drifted(j)
    /\ pc' = IF signals # {} THEN "exited" ELSE "idle"
    /\ phases' = Append(phases, "timing")
    /\ UNCHANGED << probe, enlog, level, inputs, keys, player, enemies, projectiles, score,
                    list, history, signals, calls, evlog, prlog >>

NextLegacy ==
    \/ \E k \in Keys, s \in BOOLEAN : legacy_key(k, s)
    \/ legacy_sweep
    \/ legacy_entities
    \/ legacy_projectiles
    \/ \E e \in Elapsed : legacy_timing(e)

SpecLegacy == InitLegacy /\ [][NextLegacy]_vars

(***************************************************************************)
(* Claims                                                                  *)
(***************************************************************************)
\* a tick has run to its end: check_end returned and no later frame began
TickDone == pc \in {"idle", "exited"} /\ phases # << >>

\* C1 (as claimed): every tick runs process_events, update_entities,
\* update_projectiles, check_end in that order.
C1_TickOrder ==
    TickDone => phases = << "process_events", "update_entities",
                            "update_projectiles", "check_end" >>

\* C2: check_end signals a win exactly when the enemy collection and the
\* pending event list are both empty; a level without events wins on tick one.
C2_WinIffCleared ==
    TickDone =>
       /\ ("win" \in signals) <=> (enemies = << >> /\ list = << >>)
       /\ level = << >> => ("win" \in signals /\ calls = 1)
\* a level with an event is won once the event fired and its enemy is gone
C2_Witness == TickDone /\ "win" \in signals /\ evlog.all # << >> /\ calls > 1

\* C3: check_end reports a loss exactly when the player's HP is 0, whatever
\* enemies and events remain.
C3_LossIffDead == TickDone => (("loss" \in signals) <=> player.hp = 0)
\* HP reached 0 with enemies in the collection and an event still pending
C3_Witness ==
    TickDone /\ "loss" \in signals /\ player.hp = 0 /\ enemies # << >> /\ list # << >>

\* C4: an event whose time is relative to the level start (offset T) never
\* fires at a clock reading earlier than construction time + T; it fires only
\* in a call that reads the clock at or after its absolute time.
\* (construction time is 0; seen is the reading its test was made with)
C4_NotBeforeItsTime ==
    \A n \in DOMAIN evlog.all :
        level[evlog.all[n].line].ref = None
            => evlog.all[n].seen >= level[evlog.all[n].line].t

(***************************************************************************)
(* Events.  An event is named by its line in the level file; event b       *)
(* depends on event a when b's dependency names a's id.                    *)
(***************************************************************************)
Lines == 1..Len(level)
IdOf(a) == level_parser(level)[a].id
DependsOn(b, a) == a # b /\ IsSome(level[b].ref) /\ Get(level[b].ref) = IdOf(a)
LinesOf(evs) == [i \in 1..Len(evs) |-> evs[i].line]
FiredNow == {evlog.fired[n].line : n \in 1..Len(evlog.fired)}
IsPending(ln) == ln \notin FiredNow

\* C5 (as claimed): an event fires at most once; the call in which it fires
\* spawns one enemy for it, removes it from the pending list and records its id
\* in the history with the fire timestamp; the others stay pending in their
\* order; an id in the history is never the id of a pending event.
C5_FiresOnce ==
    calls > 0 =>
       /\ \A m, n \in 1..Len(evlog.all) :
             m # n => evlog.all[m].line # evlog.all[n].line
       /\ evlog.spawned = Len(evlog.fired)
       /\ LinesOf(list) = SelectSeq(LinesOf(evlog.before), IsPending)
       /\ \A n \in 1..Len(evlog.fired) :
             /\ evlog.fired[n].id \in DOMAIN history
             /\ history[evlog.fired[n].id] = evlog.fired[n].stamp
       /\ \A i \in 1..Len(list) : list[i].id \notin DOMAIN history

\* C6 (as claimed): an event b that depends on event a with offset T fires only
\* after a fired, in a call whose now is at least a's fire timestamp plus T.
C6_AfterDependency ==
    \A n \in 1..Len(evlog.all) : \A a \in Lines :
       DependsOn(evlog.all[n].line, a) =>
          \E m \in 1..Len(evlog.all) :
             /\ evlog.all[m].line = a
             /\ evlog.all[m].call <= evlog.all[n].call
             /\ evlog.all[n].seen >= evlog.all[m].stamp + level[evlog.all[n].line].t

\* C7 (as claimed): an event never fires in the process_events call in which
\* the event it depends on fires.
C7_NotSameCall ==
    \A m, n \in 1..Len(evlog.fired) :
       ~DependsOn(evlog.fired[n].line, evlog.fired[m].line)

\* C8 (as claimed): when the call in which a fires returns, the time of an
\* event b that depends on a is still unset and b's dependency still set.
C8_UnresolvedAfterFiringCall ==
    \A i \in 1..Len(list) : \A n \in 1..Len(evlog.fired) :
       DependsOn(list[i].line, evlog.fired[n].line) =>
          (IsSome(list[i].ref_evt) /\ list[i].time = None)

\* the pending event of line ln as it was when the last call began
Before(ln) ==
    evlog.before[CHOOSE i \in 1..Len(evlog.before) : evlog.before[i].line = ln]

\* C8 (amended): when a process_events call returns, no pending event is left
\* with a dependency on an id of the history: an event whose dependency names
\* the id of an event fired in this call has had, in this same call, its time
\* set to the history's timestamp for that id plus its offset and its
\* dependency cleared; and an event fires only in a call later than the one
\* that set its time.
C8_ResolvedInFiringCall ==
    /\ \A i \in 1..Len(list) :
          /\ IsSome(list[i].ref_evt) => Get(list[i].ref_evt)[1] \notin DOMAIN history
          /\ (calls > 0 /\ list[i].ref_evt = None /\ IsSome(Before(list[i].line).ref_evt))
                => list[i].time = Some(history[Get(level[list[i].line].ref)]
                                       + level[list[i].line].t)
    /\ \A n \in 1..Len(evlog.fired) :
          /\ IsSome(Before(evlog.fired[n].line).time)
          /\ Before(evlog.fired[n].line).ref_evt = None
\* an event was resolved by the call in which an event of the id it names fired
C8_Witness ==
    \E i \in 1..Len(list) : \E n \in 1..Len(evlog.fired) :
       /\ DependsOn(list[i].line, evlog.fired[n].line)
       /\ IsSome(Before(list[i].line).ref_evt)
       /\ list[i].ref_evt = None
       /\ list[i].time = Some(evlog.fired[n].stamp + level[list[i].line].t)
       /\ level[list[i].line].t > 0

(***************************************************************************)
(* Projectiles.  A projectile of the last update_projectiles call is named *)
(* by its index in the collection when the call began.                     *)
(***************************************************************************)
HitsOf(i) == {n \in 1..Len(prlog.hits) : prlog.hits[n].proj = i}
Collided(i) == HitsOf(i) # {} \/ \E n \in 1..Len(prlog.struck) : prlog.struck[n] = i
Kept(i) == \E n \in 1..Len(prlog.kept) : prlog.kept[n] = i

\* C9 (as claimed): in one update_projectiles call a player-owned projectile
\* damages at most one enemy.
C9_OneTargetPerProjectile ==
    \A i \in 1..prlog.n : Cardinality(HitsOf(i)) <= 1

\* C10 (as claimed): a projectile that neither left the arena nor collided in
\* an update_projectiles call is still in the collection when the call returns.
C10_InnocentSurvives ==
    pc # "panicked" =>
       \A i \in 1..prlog.n : (i \notin prlog.oob /\ ~Collided(i)) => Kept(i)

(***************************************************************************)
(* The player under fire.  prlog.struck lists the projectiles that damaged *)
(* the player in the last update_projectiles call, prlog.over those that   *)
(* overlapped the hitbox, prlog.moved the positions the call moved to.     *)
(***************************************************************************)
Struck == {prlog.struck[n] : n \in 1..Len(prlog.struck)}

\* C11 (as claimed): every enemy projectile that damages the player is removed
\* in that call, which also lowers the HP and resets the immunity cooldown;
\* the hit that brings the HP to 0 included.
C11_HitConsumesProjectile ==
    (pc # "panicked" /\ Struck # {}) =>
       /\ \A i \in Struck : ~Kept(i)
       /\ player.hp < prlog.hp0
       /\ player.immunity # prlog.imm0

\* C12: the player's HP stays in 0..5 and never increases; a hit taken at
\* HP 0 leaves it at 0 (a hit never takes more than one point, never below 0).
C12_HpNeverNegative ==
    /\ [](player.hp \in 0..PlayerHp0)
    /\ [][player.hp' <= player.hp]_vars
    /\ [](\A h \in 0..PlayerHp0 : Player_hit(h) = (IF h = 0 THEN 0 ELSE h - 1))
\* the HP went all the way down to 0, one hit at a time
C12_Witness == player.hp = 0 /\ prlog.hp0 = 1 /\ Struck # {}

\* C13: HP is lost only when the immunity cooldown is over (2 s after the last
\* damaging hit), one point at a time, and at most once per update_projectiles
\* call, however many enemy projectiles overlap the hitbox in that call.
C13_OneHitPerImmunity ==
    [][player.hp' < player.hp =>
          /\ player.hp' = player.hp - 1
          /\ (player.immunity = None \/ now' - Get(player.immunity) >= ImmunityCd)
          /\ Len(prlog'.struck) = 1]_vars
\* two enemy projectiles overlapped the hitbox in one call and one HP was lost
C13_Witness ==
    /\ Cardinality(prlog.over) >= 2
    /\ Cardinality(Struck) = 1
    /\ player.hp = prlog.hp0 - 1

\* C14: a projectile whose position after the move is outside the arena is
\* removed by that call and damages neither an enemy nor the player in it.
C14_OutOfBoundsNoCollision ==
    pc # "panicked" =>
       \A i \in 1..Len(prlog.moved) :
          ~contains(prlog.moved[i].x, prlog.moved[i].y) =>
             (~Kept(i) /\ HitsOf(i) = {} /\ i \notin Struck)
\* a projectile left the arena in a call that had enemies to test it against
C14_Witness ==
    /\ pc = "entities"
    /\ enemies # << >>
    /\ \E i \in 1..Len(prlog.moved) : ~contains(prlog.moved[i].x, prlog.moved[i].y)

(***************************************************************************)
(* Enemies under fire and the score.  prlog.tally counts the hits each     *)
(* enemy took so far, prlog.dead names the enemies the hits killed.        *)
(***************************************************************************)
HitsTaken(l) == IF l \in DOMAIN prlog.tally THEN prlog.tally[l] ELSE 0

\* C15: every hit takes 2 from an enemy's hit points, and the enemy dies on
\* the hit that brings the damage to its maximum or past it: a Basic enemy
\* (15) is alive after 7 hits and dies on the 8th, a Sniper (8) on the 4th.
C15_DiesWhenDamageReachesMax ==
    /\ \A k \in 1..Len(enemies) :
          LET e == enemies[k] IN
          /\ e.hp = (IF e.variant = "Basic" THEN 15 ELSE 8) - 2 * HitsTaken(e.line)
          /\ e.hp > 0
          /\ HitsTaken(e.line) <= (IF e.variant = "Basic" THEN 7 ELSE 3)
    /\ \A l \in prlog.dead :
          HitsTaken(l) = (IF level[l].etype = "Basic" THEN 8 ELSE 4)
\* a Basic enemy took seven hits, lived, and died of the eighth
C15_Witness ==
    \E l \in prlog.dead :
       level[l].etype = "Basic" /\ HitsTaken(l) = 8 /\ LinesIn(enemies) = {}

\* C16: the score never decreases; it grows by 100 for each enemy a call of
\* update_projectiles kills and by nothing else, so it is 100 times the
\* number of enemies killed so far.
C16_ScoreCountsKills ==
    /\ [][score' = score + 100 * (IF pc = "projectiles"
                                  THEN Len(enemies) - Len(enemies') ELSE 0)]_vars
    /\ [](score = 100 * Cardinality(prlog.dead))
\* one enemy was killed and the score is 100
C16_Witness == score = 100 /\ Cardinality(prlog.dead) = 1 /\ pc = "exited"

\* C17: process_events and update_entities leave the score as it is, also
\* when update_entities removes an enemy that went off-screen.
C17_OffScreenNoScore ==
    [][(pc \in {"events", "entities"}) => (score' = score)]_vars
\* an enemy entered, left the arena and was removed; nothing was scored
C17_Witness ==
    /\ pc = "end"
    /\ Len(evlog.all) > Len(enemies)
    /\ prlog.dead = {}
    /\ score = 0

(***************************************************************************)
(* Cooldown, collision and the player's moves, on the unit runs            *)
(***************************************************************************)
\* the answer of the last is_over call still stands for the Cooldown as it is
Polled == probe # << >> /\ IsSome(probe.seen)

\* C18 (as claimed): for a Cooldown of any interval, is_over is true before
\* the first reset, false at the instant of a reset, true once the interval
\* has elapsed since the last reset, and in general true exactly when there
\* was no reset or now - last reset >= interval.
C18_IsOverAnyInterval ==
    Polled =>
       /\ probe.last_emit = None => Get(probe.seen)
       /\ probe.last_emit = Some(probe.at) => ~Get(probe.seen)
       /\ (IsSome(probe.last_emit) /\ probe.at - Get(probe.last_emit) >= probe.cooldown)
             => Get(probe.seen)
       /\ Get(probe.seen) <=>
             (probe.last_emit = None \/ probe.at - Get(probe.last_emit) >= probe.cooldown)

\* C18 (amended): the same for a Cooldown of any positive interval; with the
\* interval 0 is_over is true at the instant of the reset as at any other.
C18_IsOverPositiveInterval ==
    Polled =>
       /\ probe.last_emit = None => Get(probe.seen)
       /\ probe.last_emit = Some(probe.at) => (Get(probe.seen) <=> probe.cooldown = 0)
       /\ (IsSome(probe.last_emit) /\ probe.at - Get(probe.last_emit) >= probe.cooldown)
             => Get(probe.seen)
       /\ Get(probe.seen) <=>
             (probe.last_emit = None \/ probe.at - Get(probe.last_emit) >= probe.cooldown)
\* a Cooldown was reset and is_over turned true exactly one interval later
C18_Witness ==
    /\ Polled
    /\ probe.cooldown > 0
    /\ IsSome(probe.last_emit)
    /\ probe.at - Get(probe.last_emit) = probe.cooldown
    /\ Get(probe.seen)

\* C19 (as claimed): the collision test World calls gives the same answer
\* for (A, B) and for (B, A), whatever the sizes of the two boxes.
C19_CollideSymmetric ==
    (probe # << >> /\ IsSome(probe.ab) /\ IsSome(probe.ba)) => probe.ab = probe.ba

\* C20: whatever the inputs and the dt of the update_pos calls made so far,
\* the player's position is within 0..width and 0..height of the arena.
C20_PlayerStaysInArena ==
    /\ 0 <= player.x /\ player.x <= WorldW
    /\ 0 <= player.y /\ player.y <= WorldH
\* the player went all the way into the far corner of the arena, where any
\* further step right or down is refused
C20_Witness == player.x = WorldW /\ player.y = WorldH

(***************************************************************************)
(* The player's and the enemies' moves and shots                           *)
(***************************************************************************)
\* the coordinates the last update_pos call of the slide run tried to reach
TriedX == probe.from.x + PlayerSpeed * (B2I(probe.inp.right) - B2I(probe.inp.left)) * probe.dt
TriedY == probe.from.y + PlayerSpeed * (B2I(probe.inp.down) - B2I(probe.inp.up)) * probe.dt
InX(x) == 0 <= x /\ x <= WorldW
InY(y) == 0 <= y /\ y <= WorldH

\* C21: after an update_pos call each axis is settled on its own: a coordinate
\* whose new value is in range takes it, whatever the other axis does, a
\* coordinate whose new value is out of range keeps its old value inside the
\* range, and the center of the hitbox is the position.
C21_AxesIndependent ==
    /\ player.x = (IF InX(TriedX) THEN TriedX ELSE probe.from.x)
    /\ player.y = (IF InY(TriedY) THEN TriedY ELSE probe.from.y)
    /\ InX(player.x) /\ InY(player.y)
    /\ player.hbx = player.x /\ player.hby = player.y
\* the player slid along an edge: x was refused, y took its new value
C21_Witness ==
    /\ ~InX(TriedX)
    /\ InY(TriedY) /\ TriedY # probe.from.y
    /\ player.y = TriedY /\ player.x = probe.from.x

\* how many projectiles of the player a collection holds
RECURSIVE PlayerShots(_)
PlayerShots(ps) ==
    IF ps = << >> THEN 0
    ELSE (IF ps[1].variant = "PlayerShoot" THEN 1 ELSE 0) + PlayerShots(Tail(ps))

\* C22: update_entities creates at most one projectile of the player, and only
\* with the shoot input set and the fire cooldown over; the shot resets the
\* cooldown, so it comes at least the fire interval after the shot before;
\* without a shot the cooldown is left as it was and the collection gains no
\* projectile of the player.
C22_PlayerFireCooldown ==
    /\ [](/\ Len(enlog.made) <= 1
          /\ ~enlog.key => enlog.made = << >>
          /\ enlog.made = << >> => player.new_shoot = enlog.prev
          /\ enlog.made # << >> =>
                /\ enlog.key
                /\ enlog.made[1].variant = "PlayerShoot"
                /\ enlog.prev = None \/ enlog.seen - Get(enlog.prev) >= NewShootCd
                /\ IsSome(player.new_shoot)
                /\ Get(player.new_shoot) >= enlog.seen
                /\ enlog.prev = None
                      \/ Get(player.new_shoot) - Get(enlog.prev) >= NewShootCd)
    /\ [][PlayerShots(projectiles') <=
            PlayerShots(projectiles) + (IF pc = "entities" THEN Len(enlog'.made) ELSE 0)]_vars
\* the player, the key held down, fired again once the interval was over
C22_Witness ==
    /\ pc = "end"
    /\ enlog.made # << >>
    /\ IsSome(enlog.prev)
    /\ Get(player.new_shoot) - Get(enlog.prev) = NewShootCd
    /\ PlayerShots(projectiles) >= 1

\* the steps the enemies took in the last update_entities call
Steps == {enlog.steps[n] : n \in 1..Len(enlog.steps)}
\* a position that is a number and within the arena
Inside(nan, x, y) == ~nan /\ 0 <= x /\ x < WorldW /\ 0 <= y /\ y < WorldH

Interval(e) == IF e.variant = "Basic" THEN 25 ELSE 40

\* C24: in an update_entities call an enemy creates at most one projectile,
\* and only with its own cooldown over and its position, after its move, in
\* the arena; the shot resets its cooldown, so it comes at least the variant's
\* interval after the enemy's shot before; an enemy whose position is outside
\* the arena, not yet in it or having left it, creates none, and without a
\* shot the cooldown is left as it was.
C24_EnemyFireCooldown ==
    \A st \in Steps :
       /\ Len(st.made) <= 1
       /\ st.made = << >> => st.new.proj_cd = st.old.proj_cd
       /\ ~Inside(st.new.nan, st.new.x, st.new.y) => st.made = << >>
       /\ st.made # << >> =>
             /\ st.made[1].variant # "PlayerShoot"
             /\ st.old.proj_cd = None
                   \/ st.seen - Get(st.old.proj_cd) >= Interval(st.old)
             /\ IsSome(st.new.proj_cd)
             /\ Get(st.new.proj_cd) >= st.seen
             /\ st.old.proj_cd = None
                   \/ Get(st.new.proj_cd) - Get(st.old.proj_cd) >= Interval(st.old)
\* in one call an enemy in the arena fired again, its interval over, and an
\* enemy whose cooldown was over too, but which was outside the arena, did not
C24_Witness ==
    /\ pc = "end"
    /\ \E st \in Steps :
          /\ st.made # << >>
          /\ IsSome(st.old.proj_cd)
          /\ Inside(st.new.nan, st.new.x, st.new.y)
    /\ \E st \in Steps :
          /\ st.made = << >>
          /\ st.old.proj_cd = None
                \/ st.seen - Get(st.old.proj_cd) >= Interval(st.old)
          /\ ~Inside(st.new.nan, st.new.x, st.new.y)

\* how many of the hits of a call fell on the enemy of line l
RECURSIVE HitsOn(_, _)
HitsOn(l, hits) ==
    IF hits = << >> THEN 0
    ELSE (IF hits[1].line = l THEN 1 ELSE 0) + HitsOn(l, Tail(hits))
\* the enemy of line l in a collection that holds it
EnemyOf(l, es) == es[CHOOSE k \in 1..Len(es) : es[k].line = l]

\* C25: every enemy in the collection has hit points above 0 and at most the
\* maximum of its variant; an update_projectiles call removes exactly the
\* enemies its hits bring to 0 or below, leaves the others with what the hits
\* left them, and no hit falls on an enemy that an earlier hit of the call
\* brought to 0 or below.
C25_EnemyHpPositive ==
    /\ [](\A k \in 1..Len(enemies) :
            /\ enemies[k].hp > 0
            /\ enemies[k].hp <= (IF enemies[k].variant = "Basic" THEN 15 ELSE 8))
    /\ [][pc = "projectiles" =>
            \A k \in 1..Len(enemies) :
               LET e == enemies[k]
                   n == HitsOn(e.line, prlog'.hits)
               IN  /\ n > 0 => e.hp - 2 * (n - 1) > 0
                   /\ e.hp - 2 * n <= 0 => e.line \notin LinesIn(enemies')
                   /\ e.hp - 2 * n > 0 =>
                         /\ e.line \in LinesIn(enemies')
                         /\ EnemyOf(e.line, enemies').hp = e.hp - 2 * n]_vars
\* the call in which the enemy took its killing hit removed it
C25_Witness ==
    /\ pc = "entities"
    /\ enemies = << >>
    /\ \E n \in 1..Len(prlog.hits) : prlog.hits[n].line \in prlog.dead

\* C26 (as claimed): a Sniper in the arena whose position is the point it
\* circles, the middle of the top edge, comes out of its update with a velocity
\* of exactly zero and with its position unchanged.
C26_SniperAtTargetStaysPut ==
    \A st \in Steps :
       (/\ st.old.variant = "Sniper"
        /\ st.old.state = "OnScreen"
        /\ ~st.old.nan
        /\ st.old.x = WorldW \div 2 /\ st.old.y = 0)
       => /\ ~st.new.vnan /\ ~st.new.nan
          /\ st.new.vx = 0 /\ st.new.vy = 0
          /\ st.new.x = st.old.x /\ st.new.y = st.old.y

\* the pending events with a payload other than an enemy to spawn
Bosses(evs) == {evs[i] : i \in {k \in 1..Len(evs) : evs[k].variant = "SpawnBoss"}}

\* C27: a process_events call that finds a SpawnBoss event due (its time set
\* and not after the clock at the start of the call) aborts; a call that
\* returns had no such event due and leaves every SpawnBoss event pending;
\* after the abort nothing runs, the event is still in the list and its id
\* is not in the history.
C27_UnknownPayloadAborts ==
    /\ [][pc = "events" =>
            /\ (\E b \in Bosses(list) : IsSome(b.time) /\ Get(b.time) <= now)
                  => pc' = "panicked"
            /\ pc' # "panicked" =>
                  /\ Bosses(list') = Bosses(list)
                  /\ \A b \in Bosses(list) : IsSome(b.time) => Get(b.time) > now]_vars
    /\ [][pc # "panicked"]_vars
    /\ [](\A i \in 1..Len(BossEvents) :
            BossEvents[i].variant = "SpawnBoss" =>
               /\ \E b \in Bosses(list) : b.line = i
               /\ BossEvents[i].id \notin DOMAIN history
               /\ \A k \in 1..Len(enemies) : enemies[k].line # i)
\* the SpawnBoss event came due and process_events aborted on it
C27_Witness ==
    /\ pc = "panicked"
    /\ phases[Len(phases)] = "process_events"
    /\ \E b \in Bosses(list) : IsSome(b.time) /\ Get(b.time) <= now
    /\ 1 \notin DOMAIN history

(***************************************************************************)
(* Time within a tick, the two fields of an event, the collision test      *)
(***************************************************************************)
\* C28 (as claimed): within a tick there is one now, the one about_to_wait
\* stored: the instant written to the history for a fired event is the
\* instant its time was compared with, and every cooldown test and every
\* cooldown reset of the tick reads that same instant.
C28_SingleNowPerTick ==
    /\ \A n \in 1..Len(evlog.fired) : evlog.fired[n].stamp = evlog.fired[n].seen
    /\ pc \in {"projectiles", "entities", "end"} =>
          \A n \in 1..Len(evlog.fired) : evlog.fired[n].seen = frame.t
    /\ pc = "end" =>
          /\ enlog.made # << >> => Get(player.new_shoot) = enlog.seen
          /\ \A st \in Steps :
                /\ st.seen = frame.t
                /\ st.made # << >> => Get(st.new.proj_cd) = st.seen

\* the pending event that came from line l of the level
EventOf(l, evs) == evs[CHOOSE k \in 1..Len(evs) : evs[k].line = l]

\* C29: every pending event has either its time or its dependency set, never
\* both and never neither; as constructed, an event of a line with no
\* reference has no dependency and the time of its construction plus its
\* offset, and an event of a line with a reference has its dependency and no
\* time; a process_events call that clears the dependency of an event sets
\* its time, to the recorded instant of the id it named plus its offset, and
\* an event it leaves with its dependency is left without a time.
C29_TimeXorDependency ==
    /\ [](\A i \in 1..Len(list) : IsSome(list[i].time) # IsSome(list[i].ref_evt))
    /\ [](calls = 0 =>
            /\ Len(list) = Len(level)
            /\ \A i \in 1..Len(list) :
                  IF level[i].ref = None
                  THEN /\ list[i].ref_evt = None
                       /\ IsSome(list[i].time)
                       /\ Get(list[i].time) - level[i].t \in 0..now
                  ELSE /\ list[i].time = None
                       /\ list[i].ref_evt = Some(<<Get(level[i].ref), level[i].t>>))
    /\ [][pc = "events" =>
            \A i \in 1..Len(list') :
               LET e == list'[i]
                   o == EventOf(e.line, list)
               IN  /\ IsSome(o.time) => e = o
                   /\ IsSome(o.ref_evt) =>
                         IF IsSome(e.ref_evt)
                         THEN e = o /\ Get(o.ref_evt)[1] \notin DOMAIN history'
                         ELSE /\ Get(o.ref_evt)[1] \in DOMAIN history'
                              /\ e.time = Some(history'[Get(o.ref_evt)[1]] + Get(o.ref_evt)[2])]_vars
\* a call fired the event another event named and set that event's time
C29_Witness ==
    /\ pc = "projectiles"
    /\ \E i \in 1..Len(list) :
          /\ IsSome(level[list[i].line].ref)
          /\ list[i].ref_evt = None
          /\ IsSome(list[i].time)
          /\ EventOf(list[i].line, evlog.before).time = None

\* the closed intervals of two centered boxes overlap on the x and on the y axis
Overlap(a, b) ==
    /\ a.x - a.w \div 2 <= b.x + b.w \div 2 /\ b.x - b.w \div 2 <= a.x + a.w \div 2
    /\ a.y - a.h \div 2 <= b.y + b.h \div 2 /\ b.y - b.h \div 2 <= a.y + a.h \div 2

\* C30 (as claimed): the collision test World calls, on boxes a and b of any
\* sizes, answers true exactly when the closed intervals of the two boxes
\* overlap on both axes, also when b is larger than a and covers it.
C30_CollideIffOverlap ==
    (probe # << >> /\ IsSome(probe.ab)) => (Get(probe.ab) <=> Overlap(probe.a, probe.b))

\* C31: an on-screen Basic enemy moves downward, and sideways toward the half
\* of the arena it is not in: rightward (positive x velocity) from the left
\* half, x <= width/2, and leftward (negative x velocity) from the right half.
C31_BasicHeadsToOtherHalf ==
    \A st \in Steps :
       (st.old.state = "OnScreen" /\ st.old.variant = "Basic") =>
          /\ st.new.vy > 0
          /\ st.old.x <= WorldW \div 2 => st.new.vx > 0
          /\ st.old.x > WorldW \div 2 => st.new.vx < 0

\* C32: in an update_entities call a NotSpawned enemy keeps its x and its y
\* advances by exactly one step of the entry speed, entry_speed * dt.
C32_OneEntryStepPerUpdate ==
    \A st \in Steps :
       st.old.state = "NotSpawned" =>
          /\ st.new.x = st.old.x
          /\ st.new.y = st.old.y + EnemySpeed * enlog.dt

\* the enemy of line l in the sequence es, as a set of at most one record
EnemyAt(es, l) == {es[k] : k \in {k \in 1..Len(es) : es[k].line = l}}
\* projectile i of the call, at the place the call moved it to, overlaps a box
\* of size w x h centred at (x, y)
MovedOver(pr, i, x, y, w, h) ==
    collide_rectangle(x, y, pr.moved[i].x, pr.moved[i].y, w, h, ProjBox, ProjBox)

\* C33: damage respects ownership.  In an update_projectiles call the player
\* loses HP only to an enemy-owned projectile (Basic, Aimed) overlapping the
\* hitbox, an enemy loses hit points or dies only to a player-owned projectile
\* (PlayerShoot) overlapping it, and a projectile is scheduled for removal only
\* for leaving the arena, or, player-owned, for striking an enemy, or,
\* enemy-owned, for striking the player.
C33_DamageRespectsOwnership ==
    [][pc = "projectiles" =>
         /\ player'.hp <= player.hp
         /\ player'.hp < player.hp =>
               \E i \in 1..Len(prlog'.moved) :
                  /\ projectiles[i].variant \in {"Basic", "Aimed"}
                  /\ MovedOver(prlog', i, player.x, player.y, HitboxW, HitboxW)
         /\ \A k \in 1..Len(enemies) :
               LET e == enemies[k] IN
               (\A f \in EnemyAt(enemies', e.line) : f.hp < e.hp)
                  => \E i \in 1..Len(prlog'.moved) :
                        /\ projectiles[i].variant = "PlayerShoot"
                        /\ MovedOver(prlog', i, e.x, e.y, EnemySizeW(e.variant),
                                     EnemySizeH(e.variant))
         /\ \A n \in 1..Len(prlog'.to_remove) :
               LET i == prlog'.to_remove[n] IN
               \/ i \in prlog'.oob
               \/ /\ projectiles[i].variant = "PlayerShoot"
                  /\ \E k \in 1..Len(enemies) :
                        MovedOver(prlog', i, enemies[k].x, enemies[k].y,
                                  EnemySizeW(enemies[k].variant),
                                  EnemySizeH(enemies[k].variant))
               \/ /\ projectiles[i].variant \in {"Basic", "Aimed"}
                  /\ MovedOver(prlog', i, player.x, player.y, HitboxW, HitboxW)
    ]_vars
\* an enemy-owned projectile came to overlap an enemy in the call: both are
\* still there and the enemy has all its hit points
C33_Witness ==
    /\ pc = "entities"
    /\ \E i \in 1..Len(projectiles), k \in 1..Len(enemies) :
          /\ projectiles[i].variant \in {"Basic", "Aimed"}
          /\ ~enemies[k].nan
          /\ collide_rectangle(enemies[k].x, enemies[k].y, projectiles[i].x,
                               projectiles[i].y, EnemySizeW(enemies[k].variant),
                               EnemySizeH(enemies[k].variant), ProjBox, ProjBox)
          /\ enemies[k].hp = max_hp(enemies[k].variant)
          /\ i \notin {prlog.to_remove[n] : n \in 1..Len(prlog.to_remove)}

\* C34: in update_projectiles the indices scheduled for removal are pairwise
\* distinct and each is valid when the removal pass uses it, so the pass never
\* indexes past the end of the projectile collection and the call never aborts.
C34_RemovalIndicesSound ==
    /\ \A m, n \in 1..Len(prlog.to_remove) :
          m # n => prlog.to_remove[m] # prlog.to_remove[n]
    /\ \A n \in 1..Len(prlog.to_remove) : prlog.to_remove[n] \in 1..prlog.n
    /\ ~(pc = "panicked" /\ phases # << >>
         /\ phases[Len(phases)] = "update_projectiles")

(***************************************************************************)
(* A last stand: five Snipers, a little over two seconds apart, each        *)
(* entering at the top left corner, firing once at the player and leaving   *)
(* through the top edge while its projectile is still in flight, and a     *)
(* sixth that follows the fifth closely.  Frames of one reference tick,    *)
(* the clock still during a call, no key pressed.                          *)
(***************************************************************************)
LevelLast ==
    << Line("Sniper", 0, 10, -10, None),
       Line("Sniper", 130, 10, -10, None),
       Line("Sniper", 260, 10, -10, None),
       Line("Sniper", 390, 10, -10, None),
       Line("Sniper", 520, 10, -10, None),
       Line("Sniper", 535, 10, -10, None) >>
InitLast == probe = << >> /\ Start(LevelLast, {0}, MaxDrift)
last_frame == now < MaxLastTime /\ Frame(1)
NextLast ==
    \/ last_frame
    \/ process_events
    \/ update_projectiles
    \/ update_entities
    \/ check_end
SpecLast == InitLast /\ [][NextLast]_vars

\* C35: check_end never signals both outcomes in one tick: with the player's
\* HP at 0 the tick is reported as a loss only, also when no enemy and no
\* pending event is left.
C35_LossOnly ==
    /\ ~({"loss", "win"} \subseteq signals)
    /\ (TickDone /\ player.hp = 0) => signals = {"loss"}

\* C38: the events level_parser produces for one level have pairwise distinct
\* ids, so a dependency on an id names exactly one event of the level.
C38_DistinctIds ==
    /\ \A a, b \in Lines : a # b => IdOf(a) # IdOf(b)
    /\ \A a \in Lines :
          IsSome(level[a].ref) =>
             Cardinality({b \in Lines : IdOf(b) = Get(level[a].ref)}) <= 1

(***************************************************************************)
(* Runs that go on.  The event loop polls (ControlFlow::Poll), so          *)
(* about_to_wait keeps being called: weak fairness of the frame.  Game::tick *)
(* is one synchronous call, so a tick that has begun goes on to its next    *)
(* phase: weak fairness of the step that moves pc.  Frames of one or two    *)
(* ticks up to the horizon, the clock still during a call, no key pressed.  *)
(***************************************************************************)
\* two events, each waiting for id 0, the id of the other
LevelCycle ==
    << Line("Basic", 0, 9590, 7190, Some(0)),
       Line("Basic", 1, 9590, 7190, Some(0)) >>
\* one enemy spawned left of the arena
LevelStray == << Line("Basic", 0, -100, 1000, None) >>
LiveLevels == { LevelChain, LevelEdge, LevelCycle, LevelStray }
InitLive == probe = << >> /\ \E lv \in LiveLevels : Start(lv, {0}, MaxDrift)
live_frame(e) == now + e <= MaxLiveTime /\ Frame(e)
NextLive ==
    \/ \E e \in Elapsed : live_frame(e)
    \/ process_events
    \/ update_projectiles
    \/ update_entities
    \/ check_end
\* game.rs:356-372  Game::tick goes from one phase to the next
advance ==
    /\ pc \in {"events", "projectiles", "entities", "end"}
    /\ pc' \in {"projectiles", "entities", "end", "idle", "exited", "panicked"}
SpecLive ==
    /\ InitLive /\ [][NextLive]_vars
    /\ WF_vars(\E e \in Elapsed : live_frame(e))
    /\ WF_pc(advance)

\* every dependency of the level names level-start or the id of another event
WellNamed ==
    \A a \in Lines :
       IsSome(level[a].ref) => \E b \in Lines \ {a} : IdOf(b) = Get(level[a].ref)
\* the lines tied to level-start by a chain of dependencies of at most n links
RECURSIVE Tied(_)
Tied(n) ==
    IF n = 0 THEN {a \in Lines : ~IsSome(level[a].ref)}
    ELSE LET T == Tied(n - 1)
         IN  T \cup {a \in Lines : IsSome(level[a].ref)
                                   /\ \E b \in T : IdOf(b) = Get(level[a].ref)}
Rooted == Tied(Len(level)) = Lines

LiveLines == UNION {DOMAIN lv : lv \in LiveLevels}
\* the enemy of line l is in the collection, and in the given phase
InPhase(l, ph) == \E k \in 1..Len(enemies) : enemies[k].line = l /\ enemies[k].state = ph
\* every event fired and all that is left are enemies that never entered the arena
Stranded ==
    /\ list = << >> /\ enemies # << >>
    /\ \A k \in 1..Len(enemies) :
          /\ enemies[k].state = "NotSpawned"
          /\ ~Inside(enemies[k].nan, enemies[k].x, enemies[k].y)

N_SIZES == 3
\* game.rs:40  MenuChoice::Level(u16) and game.rs:134  resolution_choice: u8
U16Mod == 65536
U8Mod == 256

MenuKeys == {"Escape", "ArrowDown", "ArrowUp", "Enter", "]", "["}
MenuStates == {"Play", "Options", "Quit", "Level", "Resolution"}

\* v + 1 and v - 1 on an unsigned integer of modulus m: the wrapped value, and
\* whether the operation overflowed
AddOne(v, m) == [v |-> (v + 1) % m, over |-> v + 1 >= m]
SubOne(v, m) == [v |-> (v - 1) % m, over |-> v = 0]

\* game.rs:267, 293  the level index after (id +- 1) % levels.len() as u16
LevelMove(p, r) ==
    IF r.over /\ p.checked THEN [p EXCEPT !.abort = TRUE, !.over = TRUE]
    ELSE [p EXCEPT !.id = r.v % p.n, !.over = @ \/ r.over]
\* game.rs:271-273, 297-299 and gameloop.rs:57-66  the resolution choice after
\* (res +- 1) % N_SIZES, then request_window_resize (draw.rs:151-162)
ResMove(p, r) ==
    IF r.over /\ p.checked THEN [p EXCEPT !.abort = TRUE, !.over = TRUE]
    ELSE [p EXCEPT !.res = r.v % N_SIZES, !.over = @ \/ r.over]

\* game.rs:234-325  Game::menu_key_handling for a pressed key
menu_key_handling(p, key) ==
    IF key = "Escape"
    THEN [p EXCEPT !.state = IF p.state = "Resolution" THEN "Options"
                             ELSE IF p.state = "Level" THEN "Play" ELSE "Quit",
                   !.id = 0]
    ELSE IF key = "ArrowDown"
    THEN IF p.state = "Level" THEN LevelMove(p, AddOne(p.id, U16Mod))
         ELSE IF p.state = "Resolution" THEN ResMove(p, AddOne(p.res, U8Mod))
         ELSE [p EXCEPT !.state = IF p.state = "Play" THEN "Options"
                                  ELSE IF p.state = "Options" THEN "Quit" ELSE "Play"]
    ELSE IF key = "ArrowUp"
    THEN IF p.state = "Level" THEN LevelMove(p, SubOne(p.id, U16Mod))
         ELSE IF p.state = "Resolution" THEN ResMove(p, SubOne(p.res, U8Mod))
         ELSE [p EXCEPT !.state = IF p.state = "Play" THEN "Quit"
                                  ELSE IF p.state = "Options" THEN "Play" ELSE "Options"]
    ELSE IF key = "Enter"
    THEN IF p.state = "Play" THEN [p EXCEPT !.state = "Level", !.id = 0]
         ELSE IF p.state = "Options" THEN [p EXCEPT !.state = "Resolution"]
         ELSE IF p.state = "Quit" THEN [p EXCEPT !.state = "Quitting"]
         ELSE IF p.state = "Level"
         THEN IF p.id >= p.n THEN [p EXCEPT !.abort = TRUE]
              ELSE [p EXCEPT !.state = "Playing", !.id = 0]
         ELSE [p EXCEPT !.state = "Options"]
    ELSE p

\* gameloop.rs:48-71  window_event for a pressed key, game.rs:327-344 process_input
KeyPressed(p, key) ==
    LET a == IF key = "Escape" THEN [p EXCEPT !.exit = TRUE]
             ELSE IF key = "]" THEN ResMove(p, AddOne(p.res, U8Mod))
             ELSE IF key = "[" THEN ResMove(p, SubOne(p.res, U8Mod))
             ELSE p
    IN  IF ~a.abort /\ a.state \in MenuStates THEN menu_key_handling(a, key) ELSE a

\* gameloop.rs:21-28 resumed: Game::launch (game.rs:201-216) and load_levels;
\* start_level(0) needs a level, so at least one is loaded
InitMenu ==
    /\ Bench
    /\ \E n \in 1..MaxLevels, c \in BOOLEAN :
          probe = [ state |-> "Play", id |-> 0, res |-> 1, n |-> n, checked |-> c,
                    abort |-> FALSE, exit |-> FALSE, over |-> FALSE, last |-> None ]
\* a key goes down
key_pressed(key) ==
    /\ ~probe.abort /\ ~probe.exit
    /\ probe' = [KeyPressed(probe, key) EXCEPT
                    !.last = Some([key |-> key, pressed |-> TRUE, from |-> probe.state,
                                   id |-> probe.id, res |-> probe.res])]
    /\ now' = now
    /\ UnchangedWorld
\* a key goes up: window_event and menu_key_handling (game.rs:236-238) pass it by
key_released(key) ==
    /\ ~probe.abort /\ ~probe.exit
    /\ probe' = [probe EXCEPT
                    !.last = Some([key |-> key, pressed |-> FALSE, from |-> probe.state,
                                   id |-> probe.id, res |-> probe.res])]
    /\ now' = now
    /\ UnchangedWorld
NextMenu ==
    \/ \E key \in MenuKeys : key_pressed(key)
    \/ \E key \in MenuKeys : key_released(key)
SpecMenu == InitMenu /\ [][NextMenu]_vars

\* C39: under any sequence of keys the level index of the menu stays in
\* 0..levels.len()-1 and the resolution choice in 0..N_SIZES-1, moving down
\* from the last entry gives the first and moving up from the first gives the
\* last, and no unsigned addition or subtraction overflows or aborts.
C39_MenuIndicesWrap ==
    /\ ~probe.abort /\ ~probe.over
    /\ probe.state = "Level" => probe.id \in 0..(probe.n - 1)
    /\ probe.res \in 0..(N_SIZES - 1)
    /\ (IsSome(probe.last) /\ Get(probe.last).pressed) =>
          LET l == Get(probe.last) IN
          /\ (l.from = "Level" /\ l.key = "ArrowDown") =>
                probe.id = (IF l.id = probe.n - 1 THEN 0 ELSE l.id + 1)
          /\ (l.from = "Level" /\ l.key = "ArrowUp") =>
                probe.id = (IF l.id = 0 THEN probe.n - 1 ELSE l.id - 1)
          /\ ((l.from = "Resolution" /\ l.key = "ArrowDown") \/ l.key = "]") =>
                probe.res = (IF l.res = N_SIZES - 1 THEN 0 ELSE l.res + 1)
          /\ ((l.from = "Resolution" /\ l.key = "ArrowUp") \/ l.key = "[") =>
                probe.res = (IF l.res = 0 THEN N_SIZES - 1 ELSE l.res - 1)

====
